---- MODULE Spec2Model ----
(***************************************************************************)
(* Model of the moderation proxy tukumanalab/ai-proxy:                     *)
(*   src/src/ngWordChecker.ts  NGWordChecker (keyword tier, classifier     *)
(*                             tier, middleware, response synthesis)       *)
(*   src/src/database.ts       DatabaseService (request_logs, ng_words)    *)
(*   src/unnamed/part_001      the express app: proxy hooks onProxyReq,    *)
(*                             onProxyRes, onError                         *)
(*                                                                         *)
(* A JavaScript string is a sequence of one-character strings; the value   *)
(* null/undefined is the sequence Null, which holds no character.          *)
(***************************************************************************)
EXTENDS Integers, Sequences, FiniteSets, TLC

\* ------------------------------------------------------------- bounds
\* Longest text a request carries (string content, prompt).
MaxLen == 2
\* Longest policy word.
MaxWordLen == 1
\* Rows the ng_words table can hold.
MaxWords == 2
\* Requests that arrive in one run.
MaxRequests == 1
\* Requests in flight together in the runs that interleave requests.
MaxConcurrent == 2
\* Entries of a messages array.
MaxMsgs == 3
\* Parts of a multimodal content array.
MaxParts == 3
\* Tokens of a classifier response text.
MaxRespLen == 4
\* Rows of request_logs and UPDATE statements per row, where the audit
\* store is driven by itself.
MaxRows == 2
MaxUpdates == 2

\* ------------------------------------------------------------ strings
Alphabet == {"a", "A", "b"}

Null == <<"null">>

\* The sequences over S of length at most n.
SeqsUpTo(S, n) == UNION {[1..k -> S] : k \in 0..n}

Texts == SeqsUpTo(Alphabet, MaxLen)

\* JavaScript truthiness of a string-or-null value: null, undefined and ''
\* are falsy.
Truthy(v) == v # Null /\ v # <<>>

ToLowerChar(c) == IF c = "A" THEN "a" ELSE IF c = "B" THEN "b" ELSE c

toLowerCase(s) == [i \in 1..Len(s) |-> ToLowerChar(s[i])]

\* String.prototype.includes: w occurs in s as a contiguous substring.
includes(s, w) ==
  \E i \in 0..(Len(s) - Len(w)) : SubSeq(s, i + 1, i + Len(w)) = w

\* String.prototype.trim on a text whose only blank character is " ".
RECURSIVE trim(_)
trim(s) ==
  IF s = <<>> THEN s
  ELSE IF Head(s) = " " THEN trim(Tail(s))
  ELSE IF s[Len(s)] = " " THEN trim(SubSeq(s, 1, Len(s) - 1))
  ELSE s

\* Array.prototype.join(sep) on an array of strings.
RECURSIVE join(_, _)
join(a, sep) ==
  IF a = <<>> THEN <<>>
  ELSE IF Len(a) = 1 THEN a[1]
  ELSE a[1] \o sep \o join(Tail(a), sep)

\* --------------------------------------------------- keyword tier
\* NGWordChecker.checkContent: the first cached word, in cache order, whose
\* lowercase form the lowercase content includes; null when there is none.
RECURSIVE checkContentFrom(_, _)
checkContentFrom(words, lowerContent) ==
  IF words = <<>> THEN Null
  ELSE IF includes(lowerContent, toLowerCase(Head(words))) THEN Head(words)
  ELSE checkContentFrom(Tail(words), lowerContent)

checkContent(words, content) == checkContentFrom(words, toLowerCase(content))

\* ------------------------------------------------------ request bodies
\* A content part {type, text?}; text = Null when the part has none.
ImagePart == [type |-> "image", text |-> Null]
TextPart(t) == [type |-> "text", text |-> t]

\* A message content: absent, a string, an array of parts, or any other
\* truthy value (a number, an object).
UndefinedContent == [kind |-> "undefined", text |-> Null, parts |-> <<>>]
OtherContent == [kind |-> "other", text |-> Null, parts |-> <<>>]
StringContent(t) == [kind |-> "string", text |-> t, parts |-> <<>>]
ArrayContent(ps) == [kind |-> "array", text |-> Null, parts |-> ps]

\* A test that takes every content for present.
contentAlwaysTruthy(c) == TRUE

\* `!content`: undefined, null and '' are falsy; arrays and objects are truthy.
ContentTruthy(c) ==
  CASE c.kind = "undefined" -> FALSE
    [] c.kind = "string" -> Truthy(c.text)
    [] OTHER -> TRUE

Message(role, content) == [role |-> role, content |-> content]

\* body.messages: absent, an array, or a truthy value that is no array.
NoMessages == [kind |-> "undefined", items |-> <<>>]
OtherMessages == [kind |-> "other", items |-> <<>>]
MessageArray(ms) == [kind |-> "array", items |-> ms]

\* body.prompt: absent, a string, or a truthy value that is no string.
NoPrompt == [kind |-> "undefined", text |-> Null]
OtherPrompt == [kind |-> "other", text |-> Null]
StringPrompt(t) == [kind |-> "string", text |-> t]

\* body.stream: only the boolean true selects the streaming branch.
StreamValues == {"true", "false", "undefined", "'true'"}

\* body.model: absent or a string.
ModelValues == {Null, <<"m">>}

\* req.body itself is absent when no JSON body was parsed.
NoBody ==
  [present |-> FALSE, messages |-> NoMessages, prompt |-> NoPrompt,
   stream |-> "undefined", model |-> Null]

Body(messages, prompt, stream, model) ==
  [present |-> TRUE, messages |-> messages, prompt |-> prompt,
   stream |-> stream, model |-> model]

\* ------------------------------------------------- content extraction
\* What lines 171-208 of the middleware leave in requestContent:
\*   "nobody"  req.body is falsy: the whole block is skipped, next() follows
\*   "skip"    an early `return next()`
\*   "string"  requestContent holds a string
\*   "other"   requestContent holds a truthy prompt that is no string
Extracted(kind, text) == [kind |-> kind, text |-> text]

\* One part of a multimodal array, as the map callback returns it.
partText(item) ==
  IF item.type = "text" /\ Truthy(item.text) THEN item.text ELSE <<>>

mapParts(parts) == [i \in 1..Len(parts) |-> partText(parts[i])]

isUser(msg) == msg.role = "user"

\* A selection that takes the first user entry instead of the last.
firstOf(userMessages) == userMessages[1]

\* userMessages[userMessages.length - 1] (line 180)
latestOf(userMessages) == userMessages[Len(userMessages)]

extractContent(body) ==
  IF ~body.present THEN Extracted("nobody", <<>>)
  ELSE IF body.messages.kind = "array" THEN
    LET userMessages == SelectSeq(body.messages.items, isUser)
    IN  IF Len(userMessages) = 0 THEN Extracted("skip", <<>>)
        ELSE LET latestUserMessage == latestOf(userMessages)
                 content == latestUserMessage.content
             IN  IF ~ContentTruthy(content) THEN Extracted("skip", <<>>)
                 ELSE IF content.kind = "string"
                   THEN Extracted("string", content.text)
                 ELSE IF content.kind = "array"
                   THEN Extracted("string", join(mapParts(content.parts), <<" ">>))
                 ELSE Extracted("skip", <<>>)
  ELSE IF body.prompt.kind = "other" THEN Extracted("other", <<>>)
  ELSE IF body.prompt.kind = "string" /\ Truthy(body.prompt.text)
    THEN Extracted("string", body.prompt.text)
  ELSE Extracted("skip", <<>>)

\* ------------------------------------------------ classifier response
\* LLMCheckResult as JSON.parse returns it.
Verdict(blocked, word, reason) ==
  [blocked |-> blocked, matched_word |-> word, reason |-> reason]

Reasons == {<<>>, <<"r">>}

Verdicts ==
  {Verdict(b, w, r) : b \in BOOLEAN, w \in {Null, <<>>, <<"a">>}, r \in Reasons}

\* JSON.parse("{}"): an object without any of the three members.
EmptyVerdict == Verdict(FALSE, Null, Null)

\* The classifier's answer text is a sequence of tokens: "p" is prose
\* without braces, "{" and "}" are braces, "v" is the serialised members of
\* one verdict object.
RespTokens == {"p", "{", "}", "v"}

RespTexts == SeqsUpTo(RespTokens, MaxRespLen)

firstIndexOf(text, tok) ==
  IF \E i \in 1..Len(text) : text[i] = tok
  THEN CHOOSE i \in 1..Len(text) :
         text[i] = tok /\ \A j \in 1..(i - 1) : text[j] # tok
  ELSE 0

lastIndexOf(text, tok) ==
  IF \E i \in 1..Len(text) : text[i] = tok
  THEN CHOOSE i \in 1..Len(text) :
         text[i] = tok /\ \A j \in (i + 1)..Len(text) : text[j] # tok
  ELSE 0

\* text.match(/\{[\s\S]*\}/): the greedy match runs from the first "{" to
\* the last "}" after it; Null when the text holds no such pair.
jsonMatch(text) ==
  LET open == firstIndexOf(text, "{")
      close == lastIndexOf(text, "}")
  IN  IF open > 0 /\ close > open THEN SubSeq(text, open, close) ELSE Null

\* JSON.parse of the matched substring: "ok" with the verdict, or "throws".
jsonParse(matched, v) ==
  IF matched = <<"{", "v", "}">> THEN [kind |-> "ok", result |-> v]
  ELSE IF matched = <<"{", "}">> THEN [kind |-> "ok", result |-> EmptyVerdict]
  ELSE [kind |-> "throws", result |-> EmptyVerdict]

\* What one classifier call comes back with:
\*   "reject"    fetch or response.json() rejects (network error, bad body)
\*   "notok"     response.ok is false
\*   "nomatch"   the answer text holds no brace pair (or no text at all)
\*   "throws"    JSON.parse throws on the matched substring
\*   "ok"        a parsed LLMCheckResult
fetchOutcome(text, v) ==
  LET matched == jsonMatch(text)
  IN  IF matched = Null THEN [kind |-> "nomatch", result |-> EmptyVerdict]
      ELSE jsonParse(matched, v)

ClassifierOutcomes ==
  {[kind |-> "reject", result |-> EmptyVerdict],
   [kind |-> "notok", result |-> EmptyVerdict]}
  \cup {fetchOutcome(text, v) : text \in RespTexts, v \in Verdicts}

\* ---------------------------------------------------- audit store
\* Column values of request_logs, and the members of a RequestLog object.
SqlNull == [sqlnull |-> TRUE]
Undefined == [undefined |-> TRUE]
SqlInt(n) == [int |-> n]
SqlText(s) == [text |-> s]
\* JSON.stringify(x): a string that holds x serialised.
JSONstringify(x) == [json |-> x]

\* A binding that stores NULL whatever the member holds.
alwaysNull(v) == SqlNull

\* `v || null` as insertRequest and updateResponse apply it to a member:
\* undefined, 0 and '' become NULL.
orNull(v) ==
  IF v = Undefined \/ v = SqlInt(0) \/ v = SqlText(<<>>) THEN SqlNull ELSE v

\* A Partial<RequestLog> as the callers of updateResponse build it.
Outcome(statusCode, responseHeaders, responseBody, duration, error) ==
  [statusCode |-> statusCode, responseHeaders |-> responseHeaders,
   responseBody |-> responseBody, duration |-> duration, error |-> error]

\* A RequestLog or Partial without any outcome member.
NoOutcome == Outcome(Undefined, Undefined, Undefined, Undefined, Undefined)

\* The row insertRequest writes for a RequestLog that carries request
\* fields only. method, path, headers and query are copied from the request
\* like requestBody and never read again by the pipeline; `req` records
\* which request the row was written for, `updates` how many UPDATE
\* statements have changed the row and `given` the Partial the last of them
\* was called with.
insertRequestRow(r, body) ==
  [req |-> r,
   requestBody |-> JSONstringify(body),
   updates |-> 0,
   given |-> NoOutcome,
   statusCode |-> orNull(Undefined),
   responseHeaders |-> orNull(Undefined),
   responseBody |-> orNull(Undefined),
   duration |-> orNull(Undefined),
   error |-> orNull(Undefined)]

\* `v ?? old`: the member when it is present, else what the row holds.
orKeep(v, old) == IF v = Undefined THEN old ELSE orNull(v)

\* An updateResponse that sets only the columns its Partial names.
updateNamedColumns(rows, id, response) ==
  [i \in 1..Len(rows) |->
     IF i = id
     THEN [rows[i] EXCEPT
             !.updates = @ + 1,
             !.given = response,
             !.statusCode = orKeep(response.statusCode, @),
             !.responseHeaders = orKeep(response.responseHeaders, @),
             !.responseBody = orKeep(response.responseBody, @),
             !.duration = orKeep(response.duration, @),
             !.error = orKeep(response.error, @)]
     ELSE rows[i]]

\* updateResponse: UPDATE ... SET all five outcome columns WHERE id = @id.
updateResponseRows(rows, id, response) ==
  [i \in 1..Len(rows) |->
     IF i = id
     THEN [rows[i] EXCEPT
             !.updates = @ + 1,
             !.given = response,
             !.statusCode = orNull(response.statusCode),
             !.responseHeaders = orNull(response.responseHeaders),
             !.responseBody = orNull(response.responseBody),
             !.duration = orNull(response.duration),
             !.error = orNull(response.error)]
     ELSE rows[i]]

\* The entry checkWithLLM hands to insertLLMRequest.
LLMEntry(r, content, wordsChecked, blocked, word, reason) ==
  [req |-> r,
   request_content |-> content,
   ng_words_checked |-> wordsChecked,
   blocked |-> blocked,
   matched_word |-> word,
   reason |-> reason]

\* db.insertLLMRequest, which database.ts does not define: the append-only
\* record of classifier calls the specification describes.
insertLLMRequest(rows, entries) == rows \o entries

\* ------------------------------------------------ response synthesis
\* Date.now() values a handler can read.
MaxClock == 2
Clock == 1..MaxClock

\* The template string friendlyMessage, as a sequence of its pieces.
friendlyMessage(foundNGWord, blockedByLLM, llmReason) ==
  LET detectionMethod ==
        IF blockedByLLM THEN <<"(LLM: ">> \o llmReason \o <<")">> ELSE <<>>
  IN  <<"refusal[">> \o foundNGWord \o <<"]">> \o detectionMethod \o <<"retry?">>

\* `req.body.model || 'unknown'`
modelOrUnknown(body) == IF Truthy(body.model) THEN body.model ELSE <<"unknown">>

\* The first streaming chunk (lines 263-278).
contentChunk(streamId, created, body, message) ==
  [id |-> streamId, object |-> "chat.completion.chunk", created |-> created,
   model |-> modelOrUnknown(body),
   choices |-> <<[index |-> 0,
                  delta |-> {<<"role", <<"assistant">>>>, <<"content", message>>},
                  finish_reason |-> "null"]>>]

\* The final streaming chunk (lines 284-296).
finalChunk(streamId, created, body) ==
  [id |-> streamId, object |-> "chat.completion.chunk", created |-> created,
   model |-> modelOrUnknown(body),
   choices |-> <<[index |-> 0, delta |-> {}, finish_reason |-> "stop"]>>]

\* The non-streaming object (lines 312-332).
blockedResponse(id, created, body, message) ==
  [id |-> id, object |-> "chat.completion", created |-> created,
   model |-> modelOrUnknown(body),
   choices |-> <<[index |-> 0,
                  message |-> {<<"role", <<"assistant">>>>, <<"content", message>>},
                  finish_reason |-> "stop"]>>,
   usage |-> [prompt_tokens |-> 0, completion_tokens |-> 0, total_tokens |-> 0]]

\* `data: ${...}\n\n`
sseFrame(payload) == [data |-> payload]
DoneFrame == sseFrame([literal |-> "[DONE]"])

\* `Blocked by NG word: ${foundNGWord}${blockedByLLM ? ' (LLM)' : ''}`
blockAnnotation(foundNGWord, blockedByLLM) ==
  <<"Blocked by NG word: ">> \o foundNGWord
    \o (IF blockedByLLM THEN <<" (LLM)">> ELSE <<>>)

\* The express response object of one request.
FreshRes == [headers |-> {}, statusCode |-> 0, body |-> <<>>, ended |-> FALSE]

setHeader(res, name, value) ==
  [res EXCEPT !.headers = {h \in @ : h[1] # name} \cup {<<name, value>>}]

\* res.write: the first write sends the head with the default status 200.
write(res, chunk) ==
  [res EXCEPT !.body = Append(@, chunk),
              !.statusCode = IF @ = 0 THEN 200 ELSE @]

\* res.status(code).json(obj)
statusJson(res, code, obj) ==
  [setHeader(res, "Content-Type", "application/json") EXCEPT
     !.statusCode = code, !.body = Append(@, JSONstringify(obj)), !.ended = TRUE]

end(res) == [res EXCEPT !.ended = TRUE, !.statusCode = IF @ = 0 THEN 200 ELSE @]

\* ------------------------------------------------------------- state
VARIABLES
  ngWordsTable,     \* rows of the ng_words table, in id order
  ngWords,          \* NGWordChecker.ngWords, the in-memory cache
  geminiApiKey,     \* whether GEMINI_API_KEY is set
  llmCheckEnabled,  \* LLM_CHECK_ENABLED is 'true'
  requestLogs,      \* rows of the request_logs table, row i has id i
  llmRequests,      \* classifier-audit entries, in insertion order
  requestCounter,   \* the proxy's requestCounter
  handedOut,        \* the array getNGWords returned last, in its caller's hands
  reqs              \* per request: the handler's locals, req and res

vars ==
  <<ngWordsTable, ngWords, geminiApiKey, llmCheckEnabled, handedOut, requestLogs,
    llmRequests, requestCounter, reqs>>

Requests == 1..MaxRequests

NoResult == [kind |-> "none"]

\* The answer of the classifier: the text of line 114 and the verdict that
\* its "v" tokens serialise.
Answer(text, v) == [text |-> text, v |-> v]
NoAnswer == Answer(<<>>, EmptyVerdict)

\* A request that has not arrived yet.
\*   pc: "idle", "awaitLLM" (suspended in checkWithLLM's fetch), "blocked"
\*       (the middleware ended the response), "next" (next() was called, the
\*       proxy middleware has the request), "forwarding" (onProxyReq ran, the
\*       request is on its way upstream), "completed", "error"
\*   checked, keywordWord: whether checkContent ran, and what it returned
\*   ngWordsAtCheck: this.ngWords as checkContent read it
\*   llmOutcome: how the classifier's fetch settled, "none" before
\*   answer: the classifier's answer where the run keeps it, else NoAnswer
\*   llmResult: what checkWithLLM resolved with, NoResult before
\*   auditThrew: whether an audit write of this request threw
\*   decision: what `if (foundNGWord)` at line 235 found, "none" before
IdleRequest ==
  [pc |-> "idle", body |-> NoBody, requestContent |-> Extracted("none", <<>>),
   checked |-> FALSE, ngWordsAtCheck |-> <<>>, keywordWord |-> Null,
   foundNGWord |-> Null, llmOutcome |-> "none", answer |-> NoAnswer,
   auditThrew |-> FALSE, blockedByLLM |-> FALSE, llmReason |-> <<>>, llmCalls |-> 0,
   ngWordsChecked |-> <<>>, llmResult |-> NoResult, decision |-> "none",
   res |-> FreshRes, nextCalls |-> 0, reqId |-> 0, dbId |-> 0, upstream |-> 0]

NonEmptyWords == SeqsUpTo(Alphabet, MaxWordLen) \ {<<>>}

\* What addNGWord can be handed: words with blanks around them.
WordInputs == SeqsUpTo(Alphabet \cup {" "}, MaxWordLen)

NoDuplicates(ws) == \A i, j \in 1..Len(ws) : ws[i] = ws[j] => i = j

\* migrateNGWordsFromEnv on a fresh database: the words of NG_WORDS, trimmed,
\* the empty ones dropped, duplicates ignored.
MigratedTables == {ws \in SeqsUpTo(NonEmptyWords, MaxWords) : NoDuplicates(ws)}

\* No array has been handed out.
NotHandedOut == [held |-> FALSE, shared |-> FALSE, value |-> <<>>]

Init ==
  /\ handedOut = NotHandedOut
  /\ ngWordsTable \in MigratedTables
  /\ ngWords = ngWordsTable
  /\ geminiApiKey \in BOOLEAN
  /\ llmCheckEnabled \in BOOLEAN
  /\ requestLogs = <<>>
  /\ llmRequests = <<>>
  /\ requestCounter = 0
  /\ reqs = [r \in Requests |-> IdleRequest]

\* ------------------------------------------------------- middleware
\* content.substring(0, 500)
SubstringLimit == 500
substring500(content) ==
  IF Len(content) > SubstringLimit THEN SubSeq(content, 1, SubstringLimit) ELSE content

\* next(): the request goes on to proxyMiddleware.
\* A handler that ends without reaching line 351.
endsWithoutNext(q) == [q EXCEPT !.pc = "next"]

\* next() at lines 177, 183, 201, 207 and 351.
callNext(q) == [q EXCEPT !.pc = "next", !.nextCalls = @ + 1]

\* The streaming branch's header and frame writes (lines 255-299).
streamWrites(q, message, now) ==
  LET streamId == <<"blocked-", now>>
      created == now \div 1000
      res1 == setHeader(q.res, "Content-Type", "text/event-stream")
      res2 == setHeader(res1, "Cache-Control", "no-cache")
      res3 == setHeader(res2, "Connection", "keep-alive")
      res4 == write(res3, sseFrame(JSONstringify(contentChunk(streamId, created, q.body, message))))
      res5 == write(res4, sseFrame(JSONstringify(finalChunk(streamId, created, q.body))))
  IN  write(res5, DoneFrame)

\* Lines 226-351 of the handler, from `if (foundNGWord)` on, for the locals
\* in q: the request record and the request_logs rows they leave.
\* insertThrows and updateThrows say whether db.insertRequest and
\* db.updateResponse throw; an exception lands in the catch at line 346 and
\* the handler goes on to next().
finish(q, logs, r, insertThrows, updateThrows, now) ==
  IF ~Truthy(q.foundNGWord)
  THEN [req |-> callNext([q EXCEPT !.decision = "clean"]), logs |-> logs]
  ELSE
    LET qb == [q EXCEPT !.decision = "blocked"]
        dbId == Len(logs) + 1
        inserted == Append(logs, insertRequestRow(r, q.body))
        message == friendlyMessage(q.foundNGWord, q.blockedByLLM, q.llmReason)
        annotation == SqlText(blockAnnotation(q.foundNGWord, q.blockedByLLM))
    IN  IF insertThrows
          THEN [req |-> callNext([qb EXCEPT !.auditThrew = TRUE]), logs |-> logs]
        ELSE IF q.body.stream = "true" THEN
          LET written == [qb EXCEPT !.res = streamWrites(q, message, now)]
          IN  IF updateThrows
                THEN [req |-> callNext([written EXCEPT !.auditThrew = TRUE]),
                      logs |-> inserted]
              ELSE [req |-> [written EXCEPT !.res = end(@), !.pc = "blocked"],
                    logs |-> updateResponseRows(inserted, dbId,
                               Outcome(SqlInt(200),
                                       JSONstringify({<<"content-type", "text/event-stream">>}),
                                       SqlText(message), SqlInt(0), annotation))]
        ELSE
          LET response == blockedResponse(<<"blocked-", now>>, now \div 1000, q.body, message)
          IN  IF updateThrows
                THEN [req |-> callNext([qb EXCEPT !.auditThrew = TRUE]),
                      logs |-> inserted]
              ELSE [req |-> [qb EXCEPT !.res = statusJson(@, 200, response), !.pc = "blocked"],
                    logs |-> updateResponseRows(inserted, dbId,
                               Outcome(SqlInt(200),
                                       JSONstringify({<<"content-type", "application/json">>}),
                                       JSONstringify(response), SqlInt(0), annotation))]

\* `!foundNGWord && this.geminiApiKey && this.llmCheckEnabled` (line 216)
llmEligible(foundNGWord) == ~Truthy(foundNGWord) /\ geminiApiKey /\ llmCheckEnabled

\* checkWithLLM's guard (line 41): no key or no words, no call.
llmSkipped == ~geminiApiKey \/ Len(ngWords) = 0

\* A word list for the classifier read from the table, past the cache.
wordsFromTable == ngWordsTable

\* `this.ngWords` as checkWithLLM reads it at line 47, in the turn of the
\* event loop in which checkContent ran.
wordsForClassifier == ngWords

\* The handler from the arrival of request r up to its first suspension:
\* extraction, the keyword tier, then either the classifier's fetch (the
\* handler suspends) or the rest of the handler.
Middleware(r, body, insertThrows, updateThrows, now) ==
  /\ reqs[r].pc = "idle"
  /\ \A p \in 1..(r - 1) : reqs[p].pc # "idle"
  /\ LET ex == extractContent(body)
         q0 == [reqs[r] EXCEPT !.body = body, !.requestContent = ex]
     IN  IF ex.kind # "string"
         \* an early return next(), no body, or checkContent throwing on a
         \* prompt that is no string: all end in next()
         THEN /\ reqs' = [reqs EXCEPT ![r] = callNext(q0)]
              /\ UNCHANGED requestLogs
         ELSE
           LET found == checkContent(ngWords, ex.text)
               q1 == [q0 EXCEPT !.checked = TRUE, !.ngWordsAtCheck = ngWords,
                                !.keywordWord = found, !.foundNGWord = found]
           IN  IF llmEligible(found) /\ ~llmSkipped
               THEN /\ reqs' = [reqs EXCEPT ![r] =
                                  [q1 EXCEPT !.pc = "awaitLLM", !.llmCalls = @ + 1,
                                             !.ngWordsChecked = join(wordsForClassifier, <<", ">>)]]
                    /\ UNCHANGED requestLogs
               ELSE
                 LET q2 == IF llmEligible(found)
                           THEN [q1 EXCEPT !.llmResult = Verdict(FALSE, Null, <<>>)]
                           ELSE q1
                     out == finish(q2, requestLogs, r, insertThrows, updateThrows, now)
                 IN  /\ reqs' = [reqs EXCEPT ![r] = out.req]
                     /\ requestLogs' = out.logs
  /\ UNCHANGED <<ngWordsTable, ngWords, geminiApiKey, llmCheckEnabled, handedOut,
                 llmRequests, requestCounter>>

\* A catch block that answers a failed call with a blocking verdict.
errorVerdictFailClosed == Verdict(TRUE, <<"a">>, <<"Error">>)

\* The verdicts checkWithLLM returns when the call fails (lines 102, 145, 160).
apiErrorVerdict == Verdict(FALSE, Null, <<"API error">>)
parseErrorVerdict == Verdict(FALSE, Null, <<"Parse error">>)
errorVerdict == Verdict(FALSE, Null, <<"Error">>)

\* A checkWithLLM whose parse-error path returns its verdict without writing
\* the entry of lines 136-143.
checkWithLLMSilentParseError(q, r, o, firstThrows, catchThrows) ==
  LET content == substring500(q.requestContent.text)
      entry(blocked, word, reason) ==
        LLMEntry(r, content, q.ngWordsChecked, blocked, word, reason)
      errorEntry == entry(FALSE, Null, <<"Error: ", "error">>)
      caught(threw) ==
        IF catchThrows
        THEN [entries |-> <<>>, kind |-> "rejects", result |-> EmptyVerdict,
              threw |-> TRUE]
        ELSE [entries |-> <<errorEntry>>, kind |-> "resolves",
              result |-> errorVerdict, threw |-> threw]
      tried(e, result) ==
        IF firstThrows THEN caught(TRUE)
        ELSE [entries |-> <<e>>, kind |-> "resolves", result |-> result,
              threw |-> FALSE]
  IN  CASE o.kind \in {"reject", "throws"} -> caught(FALSE)
        [] o.kind = "notok" ->
             tried(entry(FALSE, Null, <<"API error: ", "status">>), apiErrorVerdict)
        [] o.kind = "nomatch" ->
             [entries |-> <<>>, kind |-> "resolves", result |-> parseErrorVerdict,
              threw |-> FALSE]
        [] o.kind = "ok" ->
             tried(entry(o.result.blocked,
                         IF Truthy(o.result.matched_word)
                           THEN o.result.matched_word ELSE Null,
                         o.result.reason),
                   o.result)

\* checkWithLLM from the moment its fetch settles with outcome o, for the
\* request record q. firstThrows says whether the insertLLMRequest inside the
\* try throws, catchThrows whether the one inside the catch (line 151) does.
\* The result: the entries written, and the verdict the promise resolves
\* with, or the rejection of the promise when the catch block itself throws.
checkWithLLMSettles(q, r, o, firstThrows, catchThrows) ==
  LET content == substring500(q.requestContent.text)
      entry(blocked, word, reason) ==
        LLMEntry(r, content, q.ngWordsChecked, blocked, word, reason)
      errorEntry == entry(FALSE, Null, <<"Error: ", "error">>)
      \* the catch block at line 146
      caught(threw) ==
        IF catchThrows
        THEN [entries |-> <<>>, kind |-> "rejects", result |-> EmptyVerdict,
              threw |-> TRUE]
        ELSE [entries |-> <<errorEntry>>, kind |-> "resolves",
              result |-> errorVerdict, threw |-> threw]
      \* an insertLLMRequest inside the try, then `return result`
      tried(e, result) ==
        IF firstThrows THEN caught(TRUE)
        ELSE [entries |-> <<e>>, kind |-> "resolves", result |-> result,
              threw |-> FALSE]
  IN  CASE o.kind \in {"reject", "throws"} -> caught(FALSE)
        [] o.kind = "notok" ->
             tried(entry(FALSE, Null, <<"API error: ", "status">>), apiErrorVerdict)
        [] o.kind = "nomatch" ->
             tried(entry(FALSE, Null, <<"Parse error">>), parseErrorVerdict)
        [] o.kind = "ok" ->
             tried(entry(o.result.blocked,
                         IF Truthy(o.result.matched_word)
                           THEN o.result.matched_word ELSE Null,
                         o.result.reason),
                   o.result)

\* Lines 218-224: the handler takes the verdict over into its locals.
takeVerdict(q, llmResult) ==
  IF llmResult.blocked
  THEN [q EXCEPT !.llmResult = llmResult,
                 !.foundNGWord = llmResult.matched_word,
                 !.blockedByLLM = TRUE,
                 !.llmReason = llmResult.reason]
  ELSE [q EXCEPT !.llmResult = llmResult]

\* The handler's continuation when the classifier call of request r settles:
\* the rest of checkWithLLM, then lines 218-351.
LLMResponse(r, answer, o, firstThrows, catchThrows, insertThrows, updateThrows, now) ==
  /\ reqs[r].pc = "awaitLLM"
  /\ LET settled == checkWithLLMSettles(reqs[r], r, o, firstThrows, catchThrows)
         q == [reqs[r] EXCEPT !.llmOutcome = o.kind, !.answer = answer,
                              !.auditThrew = settled.threw]
     IN  /\ llmRequests' = insertLLMRequest(llmRequests, settled.entries)
         /\ IF settled.kind = "rejects"
            THEN /\ reqs' = [reqs EXCEPT ![r] = callNext(q)]
                 /\ UNCHANGED requestLogs
            ELSE LET out == finish(takeVerdict(q, settled.result), requestLogs, r,
                                   insertThrows, updateThrows, now)
                 IN  /\ reqs' = [reqs EXCEPT ![r] = out.req]
                     /\ requestLogs' = out.logs
  /\ UNCHANGED <<ngWordsTable, ngWords, geminiApiKey, llmCheckEnabled, handedOut,
                 requestCounter>>

\* ------------------------------------------------------------ proxy
\* Upstream status codes and response bodies the proxy can see.
UpstreamStatus == {200}
UpstreamBodies == {<<>>, <<"x">>}

\* An onProxyReq that keeps the row id in one place shared by the requests
\* in flight instead of on the request object.
onProxyReqSharedDbId(r) ==
  /\ reqs[r].pc = "next"
  /\ requestCounter' = requestCounter + 1
  /\ requestLogs' = Append(requestLogs, insertRequestRow(r, reqs[r].body))
  /\ reqs' = [p \in DOMAIN reqs |->
                IF p = r
                THEN [reqs[p] EXCEPT !.pc = "forwarding", !.reqId = requestCounter + 1,
                                     !.dbId = Len(requestLogs) + 1, !.upstream = @ + 1]
                ELSE IF reqs[p].pc = "forwarding"
                THEN [reqs[p] EXCEPT !.dbId = Len(requestLogs) + 1]
                ELSE reqs[p]]
  /\ UNCHANGED <<ngWordsTable, ngWords, geminiApiKey, llmCheckEnabled, handedOut,
                 llmRequests>>

\* onProxyReq: the proxy request to the upstream is being sent.
onProxyReq(r) ==
  /\ reqs[r].pc = "next"
  /\ requestCounter' = requestCounter + 1
  /\ requestLogs' = Append(requestLogs, insertRequestRow(r, reqs[r].body))
  /\ reqs' = [reqs EXCEPT ![r] =
                [@ EXCEPT !.pc = "forwarding", !.reqId = requestCounter + 1,
                          !.dbId = Len(requestLogs) + 1, !.upstream = @ + 1]]
  /\ UNCHANGED <<ngWordsTable, ngWords, geminiApiKey, llmCheckEnabled, handedOut,
                 llmRequests>>

\* onProxyRes and the 'end' of the upstream response: the captured body is
\* written to the row of (req as any).dbId.
onProxyRes(r, status, responseBody, duration) ==
  /\ reqs[r].pc = "forwarding"
  /\ requestLogs' =
       IF reqs[r].dbId # 0
       THEN updateResponseRows(requestLogs, reqs[r].dbId,
              Outcome(SqlInt(status), JSONstringify({<<"upstream", "headers">>}),
                      SqlText(responseBody), SqlInt(duration), Undefined))
       ELSE requestLogs
  /\ reqs' = [reqs EXCEPT ![r] =
                [@ EXCEPT !.pc = "completed",
                          !.res = end(write([@ EXCEPT !.statusCode =
                                               IF @ = 0 THEN status ELSE @],
                                            SqlText(responseBody)))]]
  /\ UNCHANGED <<ngWordsTable, ngWords, geminiApiKey, llmCheckEnabled, handedOut,
                 llmRequests, requestCounter>>

\* An onError that answers the caller and leaves the row as it is.
onErrorWithoutUpdate(r, duration) ==
  /\ reqs[r].pc = "forwarding"
  /\ reqs' = [reqs EXCEPT ![r] =
                [@ EXCEPT !.pc = "error",
                          !.res = statusJson(@, 500,
                                    [error |-> "Proxy Error", message |-> "err.message"])]]
  /\ UNCHANGED <<ngWordsTable, ngWords, geminiApiKey, llmCheckEnabled, handedOut,
                 llmRequests, requestCounter, requestLogs>>

\* res.headersSent: a write has sent the head.
headersSent(res) == res.body # <<>>

\* onError: the transport failed; the row gets the error text and the caller
\* a 500. When the head is already sent, res.status(500).json(...) throws
\* and what the caller has received stays as it is.
onError(r, duration) ==
  /\ reqs[r].pc = "forwarding"
  /\ requestLogs' =
       IF reqs[r].dbId # 0
       THEN updateResponseRows(requestLogs, reqs[r].dbId,
              Outcome(Undefined, Undefined, Undefined, SqlInt(duration),
                      SqlText(<<"err.message">>)))
       ELSE requestLogs
  /\ reqs' = [reqs EXCEPT ![r] =
                [@ EXCEPT !.pc = "error",
                          !.res = IF headersSent(@) THEN @
                                  ELSE statusJson(@, 500,
                                         [error |-> "Proxy Error",
                                          message |-> "err.message"])]]
  /\ UNCHANGED <<ngWordsTable, ngWords, geminiApiKey, llmCheckEnabled, handedOut,
                 llmRequests, requestCounter>>

\* ---------------------------------------------------- policy words
\* DatabaseService.addNGWord: INSERT the trimmed word; the UNIQUE constraint
\* makes the statement throw on a word the table already holds.
addNGWord(word) ==
  /\ Len(ngWordsTable) < MaxWords
  /\ \A i \in 1..Len(ngWordsTable) : ngWordsTable[i] # trim(word)
  /\ ngWordsTable' = Append(ngWordsTable, trim(word))
  /\ UNCHANGED <<ngWords, geminiApiKey, llmCheckEnabled, handedOut, requestLogs,
                 llmRequests, requestCounter, reqs>>

\* NGWordChecker.reloadNGWords -> loadNGWords: this.ngWords is assigned a
\* new array of the table's words in id order; an array handed out before
\* is from then on not the cache's.
reloadNGWords ==
  /\ ngWords' = ngWordsTable
  /\ handedOut' = [handedOut EXCEPT !.shared = FALSE]
  /\ UNCHANGED <<ngWordsTable, geminiApiKey, llmCheckEnabled, requestLogs,
                 llmRequests, requestCounter, reqs>>

\* A getNGWords that returns this.ngWords itself.
returnsTheCache == [held |-> TRUE, shared |-> TRUE, value |-> ngWords]

\* `[...this.ngWords]`: a new array with the cache's words.
spreadNGWords == [held |-> TRUE, shared |-> FALSE, value |-> ngWords]

\* NGWordChecker.getNGWords
getNGWords ==
  /\ handedOut' = spreadNGWords
  /\ UNCHANGED <<ngWordsTable, ngWords, geminiApiKey, llmCheckEnabled, requestLogs,
                 llmRequests, requestCounter, reqs>>

\* The caller of getNGWords pushes a word onto the array it was returned;
\* an array shared with the cache is the cache.
CallerPushes(word) ==
  /\ handedOut.held
  /\ Len(handedOut.value) <= MaxWords
  /\ handedOut' = [handedOut EXCEPT !.value = Append(@, word)]
  /\ ngWords' = IF handedOut.shared THEN Append(ngWords, word) ELSE ngWords
  /\ UNCHANGED <<ngWordsTable, geminiApiKey, llmCheckEnabled, requestLogs,
                 llmRequests, requestCounter, reqs>>

\* ------------------------------------------------------ specification
\* Bodies the pipeline is driven with: no body at all; every prompt, not
\* streamed; one prompt under every stream and model value. The handler
\* reads stream and model only after its decision.
PromptValues == {NoPrompt, OtherPrompt} \cup {StringPrompt(t) : t \in Texts}

\* Conversations that hold nothing to check, and one that does.
UncheckableConversations ==
  {<<>>,
   <<Message("assistant", StringContent(<<"a">>))>>,
   <<Message("user", UndefinedContent)>>,
   <<Message("user", StringContent(<<>>))>>,
   <<Message("user", OtherContent)>>,
   <<Message("user", StringContent(<<"a">>)), Message("user", OtherContent)>>}

ConversationBodiesOf(conversations) ==
  {Body(MessageArray(ms), p, "undefined", Null) :
     ms \in conversations, p \in {NoPrompt, StringPrompt(<<"a">>)}}

Bodies ==
  {NoBody}
  \cup ConversationBodiesOf(UncheckableConversations)
  \cup {Body(NoMessages, p, "undefined", Null) : p \in PromptValues}
  \cup {Body(OtherMessages, p, "undefined", Null) : p \in {NoPrompt, StringPrompt(<<"a">>)}}
  \cup {Body(NoMessages, StringPrompt(<<"a">>), st, md) :
          st \in StreamValues, md \in ModelValues}

Durations == {0, 1}

\* A request arrives with a body of B. (The guards on pc repeat those of the
\* actions, ahead of the choice of the inputs.)
Arrival(B) ==
  \E r \in DOMAIN reqs :
    /\ reqs[r].pc = "idle"
    /\ \E body \in B, insertThrows, updateThrows \in BOOLEAN, now \in Clock :
         Middleware(r, body, insertThrows, updateThrows, now)

ClassifierReturn ==
  \E r \in DOMAIN reqs :
    /\ reqs[r].pc = "awaitLLM"
    /\ \E o \in ClassifierOutcomes,
          firstThrows, catchThrows, insertThrows, updateThrows \in BOOLEAN,
          now \in Clock :
         LLMResponse(r, NoAnswer, o, firstThrows, catchThrows, insertThrows,
                     updateThrows, now)

UpstreamReturn ==
  \E r \in DOMAIN reqs :
    /\ reqs[r].pc = "forwarding"
    /\ \E status \in UpstreamStatus, responseBody \in UpstreamBodies,
          duration \in Durations :
         onProxyRes(r, status, responseBody, duration)

\* Every step the system can take when requests carry a body of B.
NextOver(B) ==
  \/ Arrival(B)
  \/ ClassifierReturn
  \/ \E r \in DOMAIN reqs : onProxyReq(r)
  \/ UpstreamReturn
  \/ \E r \in DOMAIN reqs, duration \in Durations : onError(r, duration)
  \/ \E word \in WordInputs : addNGWord(word)
  \/ reloadNGWords

Next == NextOver(Bodies)

Spec == Init /\ [][Next]_vars

\* ------------------------------------- specification of the extraction
\* The same handler, driven with conversations and multimodal contents,
\* under one configuration: the policy set {"a"}, no classifier.
ConversationContents ==
  {UndefinedContent, OtherContent, StringContent(<<>>), StringContent(<<"a">>),
   StringContent(<<"b">>), ArrayContent(<<TextPart(<<"a">>)>>)}

ConversationMessages ==
  {Message(role, c) : role \in {"user", "assistant"}, c \in ConversationContents}

ConversationBodies ==
  {Body(MessageArray(ms), NoPrompt, "undefined", Null) :
     ms \in SeqsUpTo(ConversationMessages, MaxMsgs)}

Parts == {ImagePart, TextPart(Null), TextPart(<<>>), TextPart(<<"a">>), TextPart(<<"b">>)}

MultimodalBodies ==
  {Body(MessageArray(<<Message("user", ArrayContent(ps))>>), NoPrompt, "undefined", Null) :
     ps \in SeqsUpTo(Parts, MaxParts)}

ExtractBodies == ConversationBodies \cup MultimodalBodies

InitExtract ==
  /\ Init
  /\ ngWordsTable = << <<"a">> >>
  /\ ~geminiApiKey
  /\ ~llmCheckEnabled

NextExtract == Arrival(ExtractBodies)

SpecExtract == InitExtract /\ [][NextExtract]_vars

\* ------------------------------ specification of interleaved requests
\* MaxConcurrent requests in flight together, each either blocked by the
\* keyword tier or forwarded; the policy set {"a"}, no classifier.
PairBodies ==
  {Body(NoMessages, StringPrompt(t), "undefined", Null) : t \in {<<"a">>, <<"b">>}}

InitPair ==
  /\ handedOut = NotHandedOut
  /\ ngWordsTable = << <<"a">> >>
  /\ ngWords = ngWordsTable
  /\ geminiApiKey = FALSE
  /\ llmCheckEnabled = FALSE
  /\ requestLogs = <<>>
  /\ llmRequests = <<>>
  /\ requestCounter = 0
  /\ reqs = [r \in 1..MaxConcurrent |-> IdleRequest]

NextPair ==
  \/ Arrival(PairBodies)
  \/ \E r \in DOMAIN reqs : onProxyReq(r)
  \/ UpstreamReturn
  \/ \E r \in DOMAIN reqs, duration \in Durations : onError(r, duration)

SpecPair == InitPair /\ [][NextPair]_vars

\* --------------------------------------- specification with progress
\* The classifier tier switched on, the policy set {"a"}. What the process
\* itself schedules goes on: after next() the proxy sends the request, and
\* a request sent upstream ends in a response or a transport error. The
\* answer of the classifier service is the service's step: the fetch at
\* line 64 passes no timeout and no abort signal, so nothing in the handler
\* makes it happen.
LiveBodies ==
  {Body(NoMessages, StringPrompt(t), "undefined", Null) : t \in {<<"a">>, <<"b">>}}

InitLive ==
  /\ Init
  /\ ngWordsTable = << <<"a">> >>
  /\ geminiApiKey
  /\ llmCheckEnabled

NextLive == NextOver(LiveBodies)

SpecLive ==
  /\ InitLive
  /\ [][NextLive]_vars
  /\ WF_vars(\E r \in DOMAIN reqs : onProxyReq(r))
  /\ WF_vars(UpstreamReturn \/ \E r \in DOMAIN reqs, duration \in Durations : onError(r, duration))

\* The classifier's answers told apart by their text: requests that reach
\* the classifier, every answer text with every verdict in it.
ParseBodies ==
  {Body(NoMessages, StringPrompt(<<"b">>), st, Null) : st \in {"undefined", "true"}}

InitParse ==
  /\ Init
  /\ ngWordsTable = << <<"a">> >>
  /\ geminiApiKey
  /\ llmCheckEnabled

ClassifierAnswers ==
  \E r \in DOMAIN reqs :
    /\ reqs[r].pc = "awaitLLM"
    /\ \E text \in RespTexts, v \in Verdicts,
          firstThrows, catchThrows, insertThrows, updateThrows \in BOOLEAN,
          now \in Clock :
         LLMResponse(r, Answer(text, v), fetchOutcome(text, v), firstThrows,
                     catchThrows, insertThrows, updateThrows, now)

NextParse ==
  \/ Arrival(ParseBodies)
  \/ ClassifierAnswers

SpecParse == InitParse /\ [][NextParse]_vars

\* The cache under every operation: the pipeline with the classifier on,
\* the policy operations, and a caller that reads the words and changes the
\* array it got.
CacheBodies ==
  {Body(NoMessages, StringPrompt(<<"a">>), "undefined", Null)}

InitCache ==
  /\ Init
  /\ geminiApiKey
  /\ llmCheckEnabled

NextCache ==
  \/ NextOver(CacheBodies)
  \/ getNGWords
  \/ \E word \in NonEmptyWords : CallerPushes(word)

SpecCache == InitCache /\ [][NextCache]_vars

\* The audit store by itself: insertRequest and updateResponse called
\* with every Partial, on rows that may have been updated before.
Partials ==
  {Outcome(st, hd, bd, du, er) :
     st \in {Undefined, SqlInt(0), SqlInt(200)},
     hd \in {Undefined, JSONstringify({})},
     bd \in {Undefined, SqlText(<<>>)},
     du \in {Undefined, SqlInt(0), SqlInt(1)},
     er \in {Undefined, SqlText(<<"e">>)}}

InitUpdate ==
  /\ Init
  /\ ngWordsTable = <<>>
  /\ ~geminiApiKey
  /\ ~llmCheckEnabled

insertRequest ==
  /\ Len(requestLogs) < MaxRows
  /\ requestLogs' = Append(requestLogs, insertRequestRow(1, NoBody))
  /\ UNCHANGED <<ngWordsTable, ngWords, geminiApiKey, llmCheckEnabled, handedOut,
                 llmRequests, requestCounter, reqs>>

updateResponse(id, response) ==
  /\ id \in 1..Len(requestLogs)
  /\ requestLogs[id].updates < MaxUpdates
  /\ requestLogs' = updateResponseRows(requestLogs, id, response)
  /\ UNCHANGED <<ngWordsTable, ngWords, geminiApiKey, llmCheckEnabled, handedOut,
                 llmRequests, requestCounter, reqs>>

NextUpdate ==
  \/ insertRequest
  \/ \E id \in 1..MaxRows, response \in Partials : updateResponse(id, response)

SpecUpdate == InitUpdate /\ [][NextUpdate]_vars

\* ================================================================ claims
Arrived == {r \in DOMAIN reqs : reqs[r].pc # "idle"}

\* The request was handed to the forwarding stage and not answered by the
\* middleware.
Forwarded(q) ==
  /\ q.pc \in {"next", "forwarding", "completed", "error"}
  /\ q.nextCalls = 1

\* Indices of the words of ws that occur in text, ignoring case.
Occurring(ws, text) ==
  {i \in 1..Len(ws) : includes(toLowerCase(text), toLowerCase(ws[i]))}

Least(S) == CHOOSE i \in S : \A j \in S : i <= j

\* C1: a request whose decision is blocked is never handed to the forwarding
\* stage and the upstream is never contacted for it.
C1_BlockedNeverForwarded ==
  \A r \in Arrived :
    reqs[r].decision = "blocked" =>
      reqs[r].nextCalls = 0 /\ reqs[r].upstream = 0

\* C2: whenever some policy word occurs in the extracted text ignoring case,
\* the decision is blocked by the keyword tier and the term is the first such
\* word in stored order, as stored; the keyword tier reports no match only
\* when no word occurs. (The first part is stated for the texts that hold a
\* non-empty policy word: what fails for those fails for the claim.)
C2_KeywordBlocksFirstStoredMatch ==
  \A r \in Arrived :
    reqs[r].checked =>
      LET words == reqs[r].ngWordsAtCheck
          hits == Occurring(words, reqs[r].requestContent.text)
      IN  /\ (\E i \in hits : words[i] # <<>>) =>
               /\ reqs[r].keywordWord = words[Least(hits)]
               /\ reqs[r].foundNGWord = words[Least(hits)]
               /\ reqs[r].decision = "blocked"
               /\ ~reqs[r].blockedByLLM
          /\ hits = {} => reqs[r].keywordWord = Null

\* C3: when the classifier call fails (network error, non-success status, no
\* JSON object in the answer, unparsable JSON), the decision is not blocked
\* and the request is forwarded; nothing synthesized is written to it.
ClassifierFailed(q) == q.llmOutcome \in {"reject", "notok", "nomatch", "throws"}

C3_FailOpen ==
  \A r \in Arrived :
    ClassifierFailed(reqs[r]) =>
      /\ reqs[r].decision # "blocked"
      /\ ~reqs[r].blockedByLLM
      /\ Forwarded(reqs[r])
      /\ reqs[r].pc \in {"next", "forwarding"} => reqs[r].res = FreshRes

C3_Witness ==
  \E r \in Arrived :
    /\ reqs[r].llmOutcome = "throws"
    /\ reqs[r].keywordWord = Null
    /\ reqs[r].upstream = 1

\* C4: an audit write that throws changes nothing of the outcome: a request
\* decided blocked still gets the synthesized refusal and is not forwarded, a
\* request decided not-blocked is forwarded.
C4_AuditFailureKeepsOutcome ==
  \A r \in Arrived :
    reqs[r].auditThrew =>
      /\ reqs[r].decision = "blocked" =>
           /\ reqs[r].pc = "blocked"
           /\ reqs[r].res.ended
           /\ reqs[r].nextCalls = 0
      /\ reqs[r].decision = "clean" => Forwarded(reqs[r])

\* C5: every verdict with blocked = true, whatever its matched_word, makes
\* the decision blocked with the verdict's matched_word and reason,
\* attributed to the classifier, and the request gets the refusal. (Stated
\* for the requests none of whose audit writes threw, so that what TLC finds
\* is the verdict's own doing.)
C5_BlockedVerdictBlocks ==
  \A r \in Arrived :
    (reqs[r].llmResult # NoResult /\ ~reqs[r].auditThrew) =>
      (reqs[r].llmResult.blocked =>
         /\ reqs[r].decision = "blocked"
         /\ reqs[r].foundNGWord = reqs[r].llmResult.matched_word
         /\ reqs[r].blockedByLLM
         /\ reqs[r].llmReason = reqs[r].llmResult.reason
         /\ reqs[r].pc = "blocked"
         /\ reqs[r].nextCalls = 0)

\* C8: the classifier is called for a request only if the keyword tier found
\* no word, the check is enabled and a key is present; when the keyword tier
\* found a word there is no classifier call, no classifier-audit entry, and
\* the block is the keyword tier's. (The second part is stated for the texts
\* that hold a non-empty policy word: what fails for those fails for the
\* claim.)
C8_StrictTierPrecedence ==
  \A r \in Arrived :
    /\ reqs[r].llmCalls > 0 => llmCheckEnabled /\ geminiApiKey
    /\ (/\ reqs[r].checked
        /\ reqs[r].keywordWord # Null
        /\ \E i \in Occurring(reqs[r].ngWordsAtCheck, reqs[r].requestContent.text) :
             reqs[r].ngWordsAtCheck[i] # <<>>) =>
         /\ reqs[r].llmCalls = 0
         /\ \A i \in 1..Len(llmRequests) : llmRequests[i].req # r
         /\ ~reqs[r].blockedByLLM

\* The refusal text a blocked request is answered with.
Refusal(q) == friendlyMessage(q.foundNGWord, q.blockedByLLM, q.llmReason)

IsChunkFrame(f) == DOMAIN f = {"data"} /\ DOMAIN f.data = {"json"}

\* C9: a blocked request with stream = true is answered with exactly two
\* chunk frames and one [DONE] frame, in that order, and the stream is
\* closed: the first chunk carries the assistant role and the refusal with
\* finish_reason null, the second an empty delta with finish_reason stop,
\* both under one id; the headers declare the event stream.
C9_StreamingRefusalFrames ==
  \A r \in Arrived :
    (reqs[r].decision = "blocked" /\ reqs[r].body.stream = "true") =>
      LET frames == reqs[r].res.body
      IN  /\ Len(frames) = 3
          /\ IsChunkFrame(frames[1]) /\ IsChunkFrame(frames[2])
          /\ frames[3] = DoneFrame
          /\ LET first == frames[1].data.json
                 second == frames[2].data.json
             IN  /\ Len(first.choices) = 1 /\ Len(second.choices) = 1
                 /\ first.choices[1].delta =
                      {<<"role", <<"assistant">>>>, <<"content", Refusal(reqs[r])>>}
                 /\ first.choices[1].finish_reason = "null"
                 /\ second.choices[1].delta = {}
                 /\ second.choices[1].finish_reason = "stop"
                 /\ first.id = second.id
          /\ reqs[r].res.ended
          /\ reqs[r].pc = "blocked"
          /\ {<<"Content-Type", "text/event-stream">>, <<"Cache-Control", "no-cache">>,
              <<"Connection", "keep-alive">>} \subseteq reqs[r].res.headers

\* C10: a blocked request whose stream is not the boolean true is answered
\* with exactly one chat.completion object: one choice, index 0, the
\* assistant's refusal, finish_reason stop, the request's model or
\* 'unknown', the three usage counters 0; no SSE frame.
C10_NonStreamingRefusalObject ==
  \A r \in Arrived :
    (reqs[r].decision = "blocked" /\ reqs[r].body.stream # "true") =>
      LET written == reqs[r].res.body
      IN  /\ Len(written) = 1
          /\ DOMAIN written[1] = {"json"}
          /\ LET object == written[1].json
             IN  /\ object.object = "chat.completion"
                 /\ Len(object.choices) = 1
                 /\ object.choices[1].index = 0
                 /\ object.choices[1].message =
                      {<<"role", <<"assistant">>>>, <<"content", Refusal(reqs[r])>>}
                 /\ object.choices[1].finish_reason = "stop"
                 /\ object.model =
                      (IF reqs[r].body.model = Null THEN <<"unknown">> ELSE reqs[r].body.model)
                 /\ object.usage =
                      [prompt_tokens |-> 0, completion_tokens |-> 0, total_tokens |-> 0]
          /\ reqs[r].res.ended
          /\ reqs[r].pc = "blocked"

\* ------------------------------------------------- extraction claims
UserIndices(ms) == {i \in 1..Len(ms) : ms[i].role = "user"}

Greatest(S) == CHOOSE i \in S : \A j \in S : j <= i

\* The body that holds nothing of a conversation but its last user entry.
LastTurnAlone(body) ==
  LET ms == body.messages.items
  IN  Body(MessageArray(<<ms[Greatest(UserIndices(ms))]>>), body.prompt,
           body.stream, body.model)

ManyUserTurns(body) ==
  /\ body.messages.kind = "array"
  /\ Cardinality(UserIndices(body.messages.items)) >= 2

\* C6: with two or more user entries, the decision is that of the last user
\* entry alone: the text evaluated and the keyword tier's answer are those of
\* the body cut down to that entry, and a block names a term that occurs in
\* that entry's text.
C6_OnlyLastUserTurnDecides ==
  \A r \in Arrived :
    ManyUserTurns(reqs[r].body) =>
      LET alone == extractContent(LastTurnAlone(reqs[r].body))
      IN  /\ reqs[r].requestContent = alone
          /\ reqs[r].checked = (alone.kind = "string")
          /\ reqs[r].checked =>
               reqs[r].keywordWord = checkContent(reqs[r].ngWordsAtCheck, alone.text)
          /\ reqs[r].decision = "blocked" =>
               /\ alone.kind = "string"
               /\ includes(toLowerCase(alone.text), toLowerCase(reqs[r].foundNGWord))

\* Two user turns, the policy word in the earlier one only: forwarded.
C6_Witness ==
  \E r \in Arrived :
    /\ reqs[r].body.messages.items =
         <<Message("user", StringContent(<<"a">>)),
           Message("assistant", StringContent(<<"a">>)),
           Message("user", StringContent(<<"b">>))>>
    /\ reqs[r].decision = "clean"
    /\ reqs[r].pc = "next"

\* The text values of the parts tagged text, in order.
TextValues(parts) ==
  LET textParts == SelectSeq(parts, LAMBDA p : p.type = "text")
  IN  [i \in 1..Len(textParts) |->
         IF textParts[i].text = Null THEN <<>> ELSE textParts[i].text]

\* C7: when the last user entry's content is a sequence of parts, the
\* extracted text is the text values of the parts tagged text, in order,
\* joined by one space; any other part adds nothing.
C7_TextPartsJoinedBySingleSpace ==
  \A r \in Arrived :
    LET body == reqs[r].body
    IN  (body.messages.kind = "array" /\ UserIndices(body.messages.items) # {}) =>
          LET content == body.messages.items[Greatest(UserIndices(body.messages.items))].content
          IN  content.kind = "array" =>
                reqs[r].requestContent =
                  Extracted("string", join(TextValues(content.parts), <<" ">>))

\* ------------------------------------------------ answers and audit
Terminal(q) == q.pc \in {"blocked", "completed", "error"}

\* Some piece the caller received is a completion object or a chunk frame
\* whose content is the refusal text of the request.
CarriesRefusal(q) ==
  \E i \in 1..Len(q.res.body) :
    LET piece == q.res.body[i]
        said == <<"content", Refusal(q)>>
    IN  \/ /\ DOMAIN piece = {"json"}
           /\ "choices" \in DOMAIN piece.json
           /\ said \in piece.json.choices[1].message
        \/ /\ IsChunkFrame(piece)
           /\ said \in piece.data.json.choices[1].delta

\* C11: a blocked request, streaming or not and whichever tier blocked it,
\* never gets an error status, and once it is over its caller holds status
\* 200 and the refusal, which names the matched term and, for a block of
\* the classifier tier, the classifier's reason.
C11_BlockedAnsweredWith200 ==
  \A r \in Arrived :
    reqs[r].decision = "blocked" =>
      /\ reqs[r].res.statusCode \in {0, 200}
      /\ Terminal(reqs[r]) =>
           /\ reqs[r].res.statusCode = 200
           /\ CarriesRefusal(reqs[r])
           /\ includes(Refusal(reqs[r]), reqs[r].foundNGWord)
           /\ reqs[r].blockedByLLM => includes(Refusal(reqs[r]), reqs[r].llmReason)

\* The rows of request_logs written for request r.
RowsOf(r) == {i \in 1..Len(requestLogs) : requestLogs[i].req = r}

SentUpstream(q) == q.pc \in {"forwarding", "completed", "error"}

OutcomeEmpty(row) ==
  /\ row.statusCode = SqlNull
  /\ row.responseHeaders = SqlNull
  /\ row.responseBody = SqlNull
  /\ row.duration = SqlNull
  /\ row.error = SqlNull

\* C14: no request ever has two rows of request_logs, a request that is
\* over has one, and until a request is over the outcome columns of its row
\* are all empty.
C14_OneRecordPerRequest ==
  \A r \in Arrived :
    /\ Cardinality(RowsOf(r)) <= 1
    /\ Terminal(reqs[r]) => Cardinality(RowsOf(r)) = 1
    /\ ~Terminal(reqs[r]) => \A i \in RowsOf(r) : OutcomeEmpty(requestLogs[i])

\* What the proxy relayed to the caller of a completed request: the body
\* the response-end handler captured.
Captured(q) == q.res.body[Len(q.res.body)]

\* C15: with requests interleaved, the dbId a request carries names a row
\* that exists and was written for that request; no two requests carry the
\* same reqId or the same dbId; a row is updated only once its own request
\* is over, and the row of a completed request holds the response body that
\* request's handler captured.
C15_RequestsKeepTheirOwnRecord ==
  \A r \in Arrived :
    /\ reqs[r].dbId # 0 =>
         /\ reqs[r].dbId \in 1..Len(requestLogs)
         /\ requestLogs[reqs[r].dbId].req = r
    /\ \A i \in RowsOf(r) : requestLogs[i].updates > 0 => Terminal(reqs[r])
    /\ reqs[r].pc = "completed" =>
         requestLogs[reqs[r].dbId].responseBody = orNull(Captured(reqs[r]))
    /\ \A p \in Arrived \ {r} :
         /\ reqs[r].reqId # 0 => reqs[p].reqId # reqs[r].reqId
         /\ reqs[r].dbId # 0 => reqs[p].dbId # reqs[r].dbId

\* Two requests forwarded and completed, their rows written in the other
\* order than they arrived, each row holding its own request's body.
C15_Witness ==
  /\ DOMAIN reqs = 1..2
  /\ reqs[1].pc = "completed" /\ reqs[2].pc = "completed"
  /\ reqs[1].dbId = 2 /\ reqs[2].dbId = 1
  /\ Captured(reqs[1]) = SqlText(<<>>) /\ Captured(reqs[2]) = SqlText(<<"x">>)
  /\ requestLogs[2].responseBody = SqlNull
  /\ requestLogs[1].responseBody = SqlText(<<"x">>)

\* C16: the initial record is written when the request is received: a
\* request whose text is extracted and waits for the classifier, whose
\* decision is taken, that is blocked or that is being forwarded or is over
\* has a row of request_logs.
C16_RecordExistsFromReceipt ==
  \A r \in Arrived :
    reqs[r].pc \in {"awaitLLM", "next", "blocked", "forwarding", "completed", "error"} =>
      RowsOf(r) # {}

\* The body of the 500 the error handler answers with.
ProxyErrorBody == JSONstringify([error |-> "Proxy Error", message |-> "err.message"])

\* C17: no request is sent upstream more than once, and a request whose
\* forwarding failed has been answered with exactly one response, a 500
\* with the structured error body, while its row holds the error text and
\* the elapsed duration.
C17_TransportFailureSurfacedOnce ==
  \A r \in Arrived :
    /\ reqs[r].upstream <= 1
    /\ reqs[r].pc = "error" =>
         /\ reqs[r].res.statusCode = 500
         /\ reqs[r].res.body = <<ProxyErrorBody>>
         /\ reqs[r].res.ended
         /\ requestLogs[reqs[r].dbId].error = SqlText(<<"err.message">>)
         /\ requestLogs[reqs[r].dbId].duration # SqlNull

\* ------------------------------------------------------- snapshots
\* C18: whatever reloads and additions interleave with a request, the
\* request is evaluated against one set: the keyword tier's answer is that
\* of a scan of the whole cache as it stood when the request was scanned,
\* the list handed to the classifier and written to the classifier audit
\* for the request is that same set, and the set is one the table held.
C18_OneSnapshotPerRequest ==
  \A r \in Arrived :
    reqs[r].checked =>
      LET snapshot == reqs[r].ngWordsAtCheck
      IN  /\ snapshot = SubSeq(ngWordsTable, 1, Len(snapshot))
          /\ reqs[r].keywordWord = checkContent(snapshot, reqs[r].requestContent.text)
          /\ reqs[r].llmCalls > 0 => reqs[r].ngWordsChecked = join(snapshot, <<", ">>)
          /\ \A i \in 1..Len(llmRequests) :
               llmRequests[i].req = r =>
                 llmRequests[i].ng_words_checked = join(snapshot, <<", ">>)

\* The cache was reloaded with another set while the request waited for
\* the classifier; the verdict came back and the audit entry names the set
\* the request was scanned with.
C18_Witness ==
  \E r \in Arrived :
    /\ reqs[r].llmCalls = 1
    /\ reqs[r].pc # "awaitLLM"
    /\ reqs[r].ngWordsAtCheck = << <<"a">> >>
    /\ ngWords = << <<"a">>, <<"b">> >>
    /\ \E i \in 1..Len(llmRequests) :
         llmRequests[i].req = r /\ llmRequests[i].ng_words_checked = <<"a">>

\* ------------------------------------------------- skip-moderation
NothingIn(content) ==
  \/ content.kind \in {"undefined", "other"}
  \/ (content.kind = "string" /\ content.text = <<>>)

\* The body holds nothing to check: no body; no messages array and no
\* prompt (or an empty one); a messages array without a user entry; a last
\* user entry whose content is missing, empty, or neither string nor array.
NoCheckableContent(body) ==
  \/ ~body.present
  \/ /\ body.messages.kind # "array"
     /\ \/ body.prompt.kind = "undefined"
        \/ (body.prompt.kind = "string" /\ body.prompt.text = <<>>)
  \/ /\ body.messages.kind = "array"
     /\ \/ UserIndices(body.messages.items) = {}
        \/ NothingIn(body.messages.items[Greatest(UserIndices(body.messages.items))].content)

\* Some piece the caller received is a completion object or an SSE frame.
Synthesized(q) ==
  \E i \in 1..Len(q.res.body) :
    LET piece == q.res.body[i]
    IN  \/ DOMAIN piece = {"data"}
        \/ (DOMAIN piece = {"json"} /\ "choices" \in DOMAIN piece.json)

\* C19: a request whose body holds nothing to check is forwarded
\* unmoderated: next() is called once, neither the keyword tier nor the
\* classifier runs, no decision to block is taken, no classifier-audit entry
\* and no block record is written, and nothing is synthesized for the caller.
C19_NoContentShortCircuits ==
  \A r \in Arrived :
    NoCheckableContent(reqs[r].body) =>
      /\ Forwarded(reqs[r])
      /\ ~reqs[r].checked
      /\ reqs[r].llmCalls = 0
      /\ reqs[r].decision = "none"
      /\ \A i \in 1..Len(llmRequests) : llmRequests[i].req # r
      /\ ~SentUpstream(reqs[r]) => RowsOf(r) = {} /\ reqs[r].res = FreshRes
      /\ ~Synthesized(reqs[r])

\* Classifier on, policy word "a": a conversation whose last user entry is
\* no text, with "a" in an earlier user entry and in the prompt, went
\* upstream unmoderated.
C19_Witness ==
  \E r \in Arrived :
    /\ geminiApiKey /\ llmCheckEnabled /\ ngWords = << <<"a">> >>
    /\ reqs[r].body =
         Body(MessageArray(<<Message("user", StringContent(<<"a">>)),
                             Message("user", OtherContent)>>),
              StringPrompt(<<"a">>), "undefined", Null)
    /\ reqs[r].pc = "completed"
    /\ reqs[r].upstream = 1

\* --------------------------------------------------------- progress
\* C20: a request that waits for the classifier is eventually over
\* (blocked, completed or in error), whatever the classifier service does:
\* the classifier call returns within a bounded time.
C20_ClassifierCallReturns ==
  \A r \in Requests : (reqs[r].pc = "awaitLLM") ~> Terminal(reqs[r])

\* ------------------------------------------------- classifier audit
\* The classifier-audit entries written for request r.
EntriesOf(r) == {i \in 1..Len(llmRequests) : llmRequests[i].req = r}

\* C21: a request whose classifier call was made has no classifier-audit
\* entry while the call is pending and never more than one; once the call
\* has settled it has exactly one, unless the audit store threw on the
\* write; when the call failed (API error status, no JSON in the text, an
\* exception) the entry carries blocked = false and a reason. A request
\* without classifier call has no entry.
C21_OneAuditEntryPerClassifierCall ==
  \A r \in Arrived :
    /\ Cardinality(EntriesOf(r)) <= reqs[r].llmCalls
    /\ reqs[r].pc = "awaitLLM" => EntriesOf(r) = {}
    /\ (reqs[r].llmCalls = 1 /\ reqs[r].pc # "awaitLLM") =>
         /\ ~reqs[r].auditThrew => Cardinality(EntriesOf(r)) = 1
         /\ ClassifierFailed(reqs[r]) =>
              \A i \in EntriesOf(r) :
                /\ llmRequests[i].blocked = FALSE
                /\ llmRequests[i].reason # <<>>
                /\ llmRequests[i].reason # Null

\* One settled call of every outcome leaves one entry: here the response
\* without JSON, whose entry says 'Parse error'.
C21_Witness ==
  \E r \in Arrived :
    /\ reqs[r].llmOutcome = "nomatch"
    /\ ~reqs[r].auditThrew
    /\ \E i \in EntriesOf(r) :
         llmRequests[i].reason = <<"Parse error">> /\ llmRequests[i].blocked = FALSE

\* ------------------------------------------------- refuse or forward
\* The handler wrote the synthesized response and ended it.
Refused(q) ==
  /\ q.pc = "blocked"
  /\ q.res.ended
  /\ Synthesized(q)

\* C22: once the handler has run to its end it has done exactly one of two
\* things: written the synthesized response and ended it without calling
\* next(), or called next() exactly once without having written any
\* synthesized frame or object; while the classifier call is pending it has
\* done neither.
C22_RefuseOrForwardNeverBoth ==
  \A r \in Arrived :
    /\ reqs[r].nextCalls <= 1
    /\ reqs[r].pc = "awaitLLM" => (reqs[r].nextCalls = 0 /\ reqs[r].res = FreshRes)
    /\ reqs[r].pc # "awaitLLM" =>
         \/ (Refused(reqs[r]) /\ reqs[r].nextCalls = 0)
         \/ (reqs[r].nextCalls = 1 /\ ~Refused(reqs[r]) /\ ~Synthesized(reqs[r]))

\* ------------------------------------------------- record of a block
\* The stored body is the text of the pieces the caller was sent.
HoldsSentBody(stored, q) ==
  IF q.body.stream = "true"
  THEN /\ DOMAIN stored = {"text"}
       /\ Len(stored.text) = Len(q.res.body)
       /\ \A i \in 1..Len(stored.text) : stored.text[i] = q.res.body[i]
  ELSE /\ Len(q.res.body) = 1
       /\ stored = q.res.body[1]

\* The annotation holds the matched term and ends in ' (LLM)' exactly for a
\* block of the classifier tier.
NamesTermAndTier(annotation, q) ==
  /\ DOMAIN annotation = {"text"}
  /\ includes(annotation.text, q.foundNGWord)
  /\ (annotation.text[Len(annotation.text)] = " (LLM)") <=> q.blockedByLLM

\* C23: the request_logs row of a request that was answered with the
\* refusal holds status code 200, as response body the body the caller was
\* sent (the completion object, or the frames of the stream) and as error an
\* annotation with the matched term and the tier.
C23_BlockRecordHoldsSentBody ==
  \A r \in Arrived :
    reqs[r].pc = "blocked" =>
      \E i \in RowsOf(r) :
        /\ requestLogs[i].statusCode = SqlInt(200)
        /\ HoldsSentBody(requestLogs[i].responseBody, reqs[r])
        /\ NamesTermAndTier(requestLogs[i].error, reqs[r])

\* ------------------------------------------------- verdict in the answer
\* A well-formed JSON object starts at token i of text: "{" "}" or
\* "{" "v" "}".
ObjectAt(text, i) ==
  /\ text[i] = "{"
  /\ \/ (i + 1 <= Len(text) /\ text[i + 1] = "}")
     \/ (i + 2 <= Len(text) /\ text[i + 1] = "v" /\ text[i + 2] = "}")

\* The first JSON object of text is a verdict object.
FirstObjectIsVerdict(text) ==
  \E i \in 1..Len(text) :
    /\ ObjectAt(text, i)
    /\ text[i + 1] = "v"
    /\ \A j \in 1..(i - 1) : ~ObjectAt(text, j)

\* C24: whenever the first JSON object of the classifier's answer text is a
\* verdict object, whatever stands before or after it, JSON.parse succeeds
\* and checkWithLLM resolves with that verdict (unless the audit write of
\* the call threw).
C24_VerdictIsFirstObject ==
  \A r \in Arrived :
    (reqs[r].llmOutcome # "none" /\ FirstObjectIsVerdict(reqs[r].answer.text)) =>
      /\ reqs[r].llmOutcome = "ok"
      /\ ~reqs[r].auditThrew => reqs[r].llmResult = reqs[r].answer.v

\* ------------------------------------------------- the word cache
\* C25: a step that changes the cache is a reload: the cache becomes the
\* table's words and the step touches no request, no audit row and no
\* array in a caller's hands. So no step of a request (extraction, keyword
\* match, classifier verdict, block, forward) and no change a caller makes
\* to the array getNGWords returned changes the cache.
C25_CacheChangesOnlyByReload ==
  [][ngWords' # ngWords =>
       /\ ngWords' = ngWordsTable
       /\ UNCHANGED <<ngWordsTable, reqs, requestLogs, llmRequests>>
       /\ handedOut'.value = handedOut.value]_vars

\* A request was blocked by a classifier verdict naming a word the cache
\* does not hold, and a caller has pushed that word onto the array it got
\* from getNGWords: the cache still holds the table's one word.
C25_Witness ==
  /\ \E r \in Arrived :
       /\ reqs[r].pc = "blocked"
       /\ reqs[r].blockedByLLM
       /\ reqs[r].foundNGWord = <<"a">>
  /\ ngWords = << <<"b">> >>
  /\ handedOut = [held |-> TRUE, shared |-> FALSE, value |-> << <<"b">>, <<"a">> >>]

\* ------------------------------------------------- exceptions
\* Something threw while the handler ran: checkContent on a prompt that is
\* no string, the classifier call, or an audit write.
Threw(q) ==
  \/ q.requestContent.kind = "other"
  \/ q.llmOutcome \in {"reject", "throws"}
  \/ q.auditThrew

Falsy(v) == v \in {Undefined, SqlInt(0), SqlText(<<>>)}

StoredFor(v) == IF Falsy(v) THEN SqlNull ELSE v

\* C27: a step in which row i is updated leaves in each of the five outcome
\* columns of row i the member of the Partial it was called with, or NULL
\* where the member is absent or falsy, whatever the column held before; it
\* leaves the row's request fields, every other row and the number of rows
\* as they were.
C27_UpdateRewritesFiveColumns ==
  [][\A i \in 1..Len(requestLogs) :
       (i <= Len(requestLogs') /\ requestLogs'[i].updates # requestLogs[i].updates) =>
         LET given == requestLogs'[i].given
             old == requestLogs[i]
             new == requestLogs'[i]
         IN  /\ new.statusCode = StoredFor(given.statusCode)
             /\ new.responseHeaders = StoredFor(given.responseHeaders)
             /\ new.responseBody = StoredFor(given.responseBody)
             /\ new.duration = StoredFor(given.duration)
             /\ new.error = StoredFor(given.error)
             /\ new.req = old.req
             /\ new.requestBody = old.requestBody
             /\ Len(requestLogs') = Len(requestLogs)
             /\ \A j \in 1..Len(requestLogs) : j # i => requestLogs'[j] = requestLogs[j]
    ]_vars

\* Of two rows the first has been updated twice, the last time with a
\* Partial of an error and a duration of 0: it holds the error and NULL in
\* the four other columns, the second row holds what its one update gave it.
C27_Witness ==
  /\ Len(requestLogs) = 2
  /\ requestLogs[1].updates = 2
  /\ requestLogs[1].given =
       Outcome(Undefined, Undefined, Undefined, SqlInt(0), SqlText(<<"e">>))
  /\ requestLogs[1].error = SqlText(<<"e">>)
  /\ requestLogs[1].statusCode = SqlNull
  /\ requestLogs[1].duration = SqlNull
  /\ requestLogs[2].updates = 1
  /\ requestLogs[2].statusCode = SqlInt(200)

\* ------------------------------------------------- the empty word
\* C28: when the cache holds an empty word and the extracted text holds a
\* non-empty word of the cache, wherever the two stand in the cache, the
\* keyword tier returns a non-empty word, the decision is blocked and the
\* classifier is not called.
C28_EmptyWordDoesNotMask ==
  \A r \in Arrived :
    LET words == reqs[r].ngWordsAtCheck
        text == toLowerCase(reqs[r].requestContent.text)
    IN  (/\ reqs[r].checked
         /\ \E i \in 1..Len(words) : words[i] = <<>>
         /\ \E j \in 1..Len(words) :
              words[j] # <<>> /\ includes(text, toLowerCase(words[j]))) =>
          /\ Truthy(reqs[r].keywordWord)
          /\ reqs[r].decision = "blocked"
          /\ reqs[r].llmCalls = 0
====
